---- MODULE Spec2Model ----
(***************************************************************************)
(* A model of src/app.py: the Streamlit page "Weather App - SPC Outlook +  *)
(* NC4 GeoJSON Volume".                                                    *)
(*                                                                         *)
(* JSON values are tagged records, one field name per JSON type, so that   *)
(* values of different types can be compared:                              *)
(*   [num |-> n]   a number        [null |-> TRUE]  null                   *)
(*   [str |-> s]   a string        [list |-> seq]   an array               *)
(*   [obj |-> f]   an object, f a function from its keys to values         *)
(*   [bool |-> b]  true or false                                           *)
(* Numbers in documents are integers (degrees).  A computed float is kept  *)
(* as the exact rational in lowest terms, [n |-> numerator, d |-> denom].  *)
(***************************************************************************)
EXTENDS Integers, Sequences, FiniteSets, TLC

VARIABLES
    \* compute_view_state (lines 14-41)
    geojson_dict,    \* the document argument, or NoDoc before a call
    default_center,  \* the <<lat, lon>> argument (rationals)
    zoom,            \* the zoom argument
    fi,              \* number of features the loop of line 28 has taken
    stack,           \* call stack of walk_coords: frames [coords, i]
    lons, lats,      \* the two sample lists (JSON values)
    view,            \* the returned ViewState, or NoView
    exc,             \* the exception in flight, or NoExc
    pc,              \* position of the script
    \* the page
    tab,             \* the tab whose block runs: "spc", "nc4"; "none": no page
    shown,           \* the elements the run has displayed
    resp,            \* the response of the GET this run issued, or NoResp
    rel_path,        \* the chosen relative path (line 198 or 208)
    NC4_ROOT,        \* line 72: TRUE when the environment sets it
    runs,            \* script runs started so far
    \* st.cache_data (lines 62, 76, 89): kept across runs
    url_cache, list_cache, file_cache,
    \* the environment
    fs,              \* the volume: relative path -> bytes of the file
    writes,          \* changes the environment has made to the volume
    listing          \* what the last call of list_nc4_geojson returned

viewVars == <<geojson_dict, default_center, zoom, fi, stack, lons, lats, view>>

pageVars == <<tab, shown, resp, rel_path, NC4_ROOT, runs>>

cacheVars == <<url_cache, list_cache, file_cache>>

envVars == <<fs, writes, listing>>

vars == <<viewVars, exc, pc, pageVars, cacheVars, envVars>>

----------------------------------------------------------------------------
(* Bounds of the inputs *)

\* A document's size: one for each feature and one for each node (array or
\* atom) of its coordinates.
MaxSize == 6

\* Stands for sys.getrecursionlimit(): above any depth a bounded array reaches.
RecursionLimit == MaxSize + 2

----------------------------------------------------------------------------
(* JSON values *)

Num(n) == [num |-> n]
Null == [null |-> TRUE]
Str(s) == [str |-> s]
List(s) == [list |-> s]
Obj(f) == [obj |-> f]
Bool(b) == [bool |-> b]

IsNum(v) == "num" \in DOMAIN v
IsNull(v) == "null" \in DOMAIN v
IsStr(v) == "str" \in DOMAIN v
IsList(v) == "list" \in DOMAIN v
IsObj(v) == "obj" \in DOMAIN v
IsBool(v) == "bool" \in DOMAIN v

\* isinstance(v, (float, int)) (line 20): bool is a subclass of int
IsNumber(v) == IsNum(v) \/ IsBool(v)

\* The value of a number in arithmetic: True is 1, False is 0
NumVal(v) == IF IsBool(v) THEN (IF v.bool THEN 1 ELSE 0) ELSE v.num

EmptyObj == Obj(<<>>)

\* dict.get(key, dflt)
Get(o, key, dflt) == IF key \in DOMAIN o.obj THEN o.obj[key] ELSE dflt

\* Python truthiness of a JSON value (the operand of `or` on line 29)
Truthy(v) ==
    IF IsNull(v) THEN FALSE
    ELSE IF IsBool(v) THEN v.bool
    ELSE IF IsNum(v) THEN v.num # 0
    ELSE IF IsStr(v) THEN v.str # ""
    ELSE IF IsList(v) THEN v.list # <<>>
    ELSE DOMAIN v.obj # {}

----------------------------------------------------------------------------
(* Exact rationals for the floats of a ViewState *)

RECURSIVE Gcd(_, _)
Gcd(a, b) == IF b = 0 THEN a ELSE Gcd(b, a % b)

Abs(a) == IF a < 0 THEN -a ELSE a

\* n / d with d > 0, in lowest terms
Rat(n, d) ==
    LET g == Gcd(Abs(n), d)
    IN  [n |-> n \div g, d |-> d \div g]

RECURSIVE SumNums(_)
SumNums(s) == IF s = <<>> THEN 0 ELSE NumVal(Head(s)) + SumNums(Tail(s))

NoView == [noview |-> TRUE]

NoDoc == [nodoc |-> TRUE]

\* Exceptions: the class, and the status an HTTPError's message starts with
Exc(type) == [type |-> type, status |-> 0]
NoExc == Exc("none")

\* pdk.ViewState(latitude=, longitude=, zoom=)
ViewState(lat, lon, z) == [latitude |-> lat, longitude |-> lon, zoom |-> z]

----------------------------------------------------------------------------
(* Bounded inputs: every document of size at most MaxSize, up to the      *)
(* choice of its numbers, and some larger ones.                           *)

\* The k-th number of a document, in document order: -100, 40, -102, 42, ...
NumAt(k) == IF k % 2 = 1 THEN -100 - (k - 1) ELSE 40 + (k - 2)

\* Shapes: trees whose numbers are all Num(0), to be numbered by Relabel
AtomShapes == {Num(0), Null}

\* ShapeTable(n)[k] holds the trees of k nodes (t) and the non-empty
\* sequences of trees of k nodes in total (f), for k in 1..n.
RECURSIVE ShapeTable(_)
ShapeTable(n) ==
    IF n = 0 THEN <<>>
    ELSE LET prev == ShapeTable(n - 1)
             F(m) == IF m = 0 THEN {<<>>} ELSE prev[m].f
             Tn == IF n = 1 THEN AtomShapes \cup {List(<<>>)}
                   ELSE {List(s) : s \in F(n - 1)}
             T(k) == IF k = n THEN Tn ELSE prev[k].t
             Fn == UNION {{<<t>> \o s : t \in T(k), s \in F(n - k)} : k \in 1..n}
         IN  Append(prev, [t |-> Tn, f |-> Fn])

\* The features of a given size, from a table of shapes
FeaturesOfSize(table, n) ==
    IF n = 1
    THEN {EmptyObj, Obj([geometry |-> Null]), Obj([geometry |-> EmptyObj])}
    ELSE {Obj([geometry |-> Obj([coordinates |-> t])]) : t \in table[n - 1].t}

RECURSIVE FeatureSeqs(_, _)
FeatureSeqs(table, budget) ==
    {<<>>} \cup
    UNION {{<<f>> \o s : f \in FeaturesOfSize(table, k),
                         s \in FeatureSeqs(table, budget - k)} :
           k \in 1..budget}

\* Relabel(v, k): v with its numbers replaced, in document order, by
\* NumAt(k), NumAt(k + 1), ...; and the next free index.
RECURSIVE Relabel(_, _), RelabelSeq(_, _)
Relabel(v, k) ==
    IF IsNum(v) THEN [v |-> Num(NumAt(k)), k |-> k + 1]
    ELSE IF IsList(v)
         THEN LET r == RelabelSeq(v.list, k) IN [v |-> List(r.v), k |-> r.k]
    ELSE IF IsObj(v) /\ DOMAIN v.obj # {}
         THEN LET key == CHOOSE x \in DOMAIN v.obj : TRUE
                  r == Relabel(v.obj[key], k)
              IN  [v |-> Obj([x \in {key} |-> r.v]), k |-> r.k]
    ELSE [v |-> v, k |-> k]

RelabelSeq(s, k) ==
    IF s = <<>> THEN [v |-> <<>>, k |-> k]
    ELSE LET h == Relabel(Head(s), k)
             t == RelabelSeq(Tail(s), h.k)
         IN  [v |-> <<h.v>> \o t.v, k |-> t.k]

Point(lon, lat) == List(<<Num(lon), Num(lat)>>)
Feature(coords) == Obj([geometry |-> Obj([coordinates |-> coords])])
FeatureCollection(features) == Obj([features |-> List(features)])

\* Larger documents: a line, a polygon ring with altitudes, two features, a
\* string among the coordinates, a leaf whose latitude is an array, leaves
\* that hold true and false.
LargerDocuments ==
    {FeatureCollection(<<Feature(List(<<Point(-100, 40), Point(-102, 42)>>))>>),
     FeatureCollection(<<Feature(List(<<List(<<
         List(<<Num(-100), Num(40), Num(7)>>), Point(-90, 30), Point(-95, 45)>>)>>))>>),
     FeatureCollection(<<Feature(Point(-100, 40)), Obj([geometry |-> Null]),
                         Feature(List(<<Point(-102, 42), Point(-101, 44)>>))>>),
     FeatureCollection(<<Feature(List(<<Point(-100, 40), Str("x")>>))>>),
     FeatureCollection(<<Feature(List(<<Str("x"), Point(-100, 40)>>))>>),
     FeatureCollection(<<Feature(Point(-100, 40)),
                         Feature(List(<<Num(-100), Point(40, 41)>>))>>),
     FeatureCollection(<<Feature(List(<<List(<<Bool(TRUE), Num(40)>>),
                                        List(<<Num(-100), Bool(FALSE)>>)>>))>>)}

\* The documents compute_view_state is called on: those of size at most
\* `size`, the larger ones, and a document without "features".
Documents(size) ==
    {EmptyObj} \cup LargerDocuments \cup
    {FeatureCollection(Relabel(List(s), 1).v.list) :
        s \in FeatureSeqs(ShapeTable(size), size)}

\* The (default_center, zoom) pairs of the callers: the defaults of line 14,
\* used by both tabs, and the (0, 0), zoom 1 call of the documentation.
CallSites ==
    {[default_center |-> <<Rat(79, 2), Rat(-1967, 20)>>, zoom |-> 4],
     [default_center |-> <<Rat(0, 1), Rat(0, 1)>>, zoom |-> 1]}

----------------------------------------------------------------------------
(* compute_view_state, lines 14-41 *)

Top == stack[Len(stack)]
Pop == SubSeq(stack, 1, Len(stack) - 1)

Frame(c) == [coords |-> c, i |-> 0]

\* What `coords[0]` and `for c in coords` range over: a list's elements, or
\* a string's characters, each a one-character string.
Subscriptable(c) == IsList(c) \/ IsStr(c)
Elements(c) == IF IsList(c) THEN c.list ELSE IF c.str = "" THEN <<>> ELSE <<c>>

\* As GeomOf, without the `or {}`: the default stands in for a missing
\* geometry only, not for a null one.
GeomOfWithoutOr(feature) == Get(feature, "geometry", EmptyObj)

\* feature.get("geometry") or {}                                  (line 29)
GeomOf(feature) ==
    LET g == Get(feature, "geometry", Null)
    IN  IF Truthy(g) THEN g ELSE EmptyObj

Features == Get(geojson_dict, "features", List(<<>>)).list

\* `"coordinates" in geom` (line 30): "yes", "no", or the exception of a
\* geom that supports no `in`.  (Of a string, only the whole is compared.)
HasCoordinates(geom) ==
    IF IsObj(geom)
    THEN (IF "coordinates" \in DOMAIN geom.obj THEN "yes" ELSE "no")
    ELSE IF IsList(geom)
    THEN (IF \E k \in 1..Len(geom.list) : geom.list[k] = Str("coordinates")
          THEN "yes" ELSE "no")
    ELSE IF IsStr(geom) THEN (IF geom.str = "coordinates" THEN "yes" ELSE "no")
    ELSE "TypeError"

\* lines 28-31: the loop takes the next feature and calls walk_coords on its
\* coordinates, if it has any.
ForFeature ==
    /\ pc = "walk"
    /\ stack = <<>>
    /\ fi < Len(Features)
    /\ fi' = fi + 1
    /\ LET geom == GeomOf(Features[fi + 1])
           has == HasCoordinates(geom)
       IN  IF has = "no"
           THEN UNCHANGED <<stack, exc, pc>>
           ELSE IF has = "yes" /\ IsObj(geom)
           THEN /\ stack' = <<Frame(geom.obj["coordinates"])>>
                /\ UNCHANGED <<exc, pc>>
           ELSE /\ exc' = Exc("TypeError")      \* geom["coordinates"], or `in`
                /\ pc' = "raised"
                /\ stack' = stack
    /\ UNCHANGED <<geojson_dict, default_center, zoom, lons, lats, view>>
    /\ UNCHANGED <<pageVars, cacheVars, envVars>>

\* lines 20-23: a node whose first element is a number is a leaf.
IsLeaf(c) == Subscriptable(c) /\ Elements(c) # <<>> /\ IsNumber(Elements(c)[1])

WalkLeaf ==
    /\ pc = "walk"
    /\ stack # <<>>
    /\ IsLeaf(Top.coords)
    /\ Len(Elements(Top.coords)) >= 2
    /\ lons' = Append(lons, Elements(Top.coords)[1])
    /\ lats' = Append(lats, Elements(Top.coords)[2])
    /\ stack' = Pop
    /\ UNCHANGED <<geojson_dict, default_center, zoom, fi, view, exc, pc>>
    /\ UNCHANGED <<pageVars, cacheVars, envVars>>

\* lines 24-26: otherwise the loop calls walk_coords on the next child
IsInner(c) == Subscriptable(c) /\ Elements(c) # <<>> /\ ~IsNumber(Elements(c)[1])

\* As WalkDescend, calling walk_coords(coords) in place of walk_coords(c)
WalkDescendIntoCoords ==
    /\ pc = "walk"
    /\ stack # <<>>
    /\ IsInner(Top.coords)
    /\ Top.i < Len(Elements(Top.coords))
    /\ Len(stack) < RecursionLimit
    /\ stack' = Append([stack EXCEPT ![Len(stack)].i = @ + 1], Frame(Top.coords))
    /\ UNCHANGED <<geojson_dict, default_center, zoom, fi, lons, lats, view, exc, pc>>
    /\ UNCHANGED <<pageVars, cacheVars, envVars>>

WalkDescend ==
    /\ pc = "walk"
    /\ stack # <<>>
    /\ IsInner(Top.coords)
    /\ Top.i < Len(Elements(Top.coords))
    /\ Len(stack) < RecursionLimit
    /\ stack' = Append([stack EXCEPT ![Len(stack)].i = @ + 1],
                       Frame(Elements(Top.coords)[Top.i + 1]))
    /\ UNCHANGED <<geojson_dict, default_center, zoom, fi, lons, lats, view, exc, pc>>
    /\ UNCHANGED <<pageVars, cacheVars, envVars>>

\* line 25: the loop is over, walk_coords returns
WalkReturn ==
    /\ pc = "walk"
    /\ stack # <<>>
    /\ IsInner(Top.coords)
    /\ Top.i = Len(Elements(Top.coords))
    /\ stack' = Pop
    /\ UNCHANGED <<geojson_dict, default_center, zoom, fi, lons, lats, view, exc, pc>>
    /\ UNCHANGED <<pageVars, cacheVars, envVars>>

\* The exception walk_coords raises on the node of the top frame, or "none"
WalkError(c, depth) ==
    IF ~Subscriptable(c) THEN (IF IsObj(c) THEN "KeyError" ELSE "TypeError")
    ELSE IF Elements(c) = <<>> THEN "IndexError"               \* coords[0]
    ELSE IF IsLeaf(c)
         THEN (IF Len(Elements(c)) < 2 THEN "ValueError" ELSE "none")  \* unpack
    ELSE IF depth >= RecursionLimit THEN "RecursionError"
    ELSE "none"

WalkRaise ==
    /\ pc = "walk"
    /\ stack # <<>>
    /\ WalkError(Top.coords, Len(stack)) # "none"
    /\ ~(IsInner(Top.coords) /\ Top.i = Len(Elements(Top.coords)))
    /\ exc' = Exc(WalkError(Top.coords, Len(stack)))
    /\ stack' = <<>>
    /\ pc' = "raised"
    /\ UNCHANGED <<geojson_dict, default_center, zoom, fi, lons, lats, view>>
    /\ UNCHANGED <<pageVars, cacheVars, envVars>>

\* sum(xs) / len(xs): a TypeError unless every sample is a number
Mean(xs) == Rat(SumNums(xs), Len(xs))

AllNums(xs) == \A k \in 1..Len(xs) : IsNumber(xs[k])

\* lines 34-35: the view of a document without samples
DefaultView(center, z) == ViewState(center[1], center[2], z)

\* lines 33-41
Return ==
    /\ pc = "walk"
    /\ stack = <<>>
    /\ fi = Len(Features)
    /\ IF lats = <<>>
       THEN /\ view' = DefaultView(default_center, zoom)
            /\ pc' = "returned"
            /\ exc' = exc
       ELSE IF AllNums(lats) /\ AllNums(lons)
       THEN /\ view' = ViewState(Mean(lats), Mean(lons), zoom)
            /\ pc' = "returned"
            /\ exc' = exc
       ELSE /\ exc' = Exc("TypeError")
            /\ pc' = "raised"
            /\ view' = view
    /\ UNCHANGED <<geojson_dict, default_center, zoom, fi, stack, lons, lats>>
    /\ UNCHANGED <<pageVars, cacheVars, envVars>>

----------------------------------------------------------------------------
----------------------------------------------------------------------------
(* JSON text.  The bytes of a body or a file are a sequence of tokens:     *)
(* [p |-> c] a punctuation mark, [lit |-> v] a number, string, null, true  *)
(* or false.                                                               *)

P(c) == [p |-> c]
Lit(v) == [lit |-> v]
IsLit(tok) == "lit" \in DOMAIN tok

\* How a writer serialises a value (json.dumps)
RECURSIVE Dumps(_), DumpsElems(_), DumpsMembers(_, _)
Dumps(v) ==
    IF IsList(v) THEN <<P("[")>> \o DumpsElems(v.list) \o <<P("]")>>
    ELSE IF IsObj(v) THEN <<P("{")>> \o DumpsMembers(v.obj, DOMAIN v.obj) \o <<P("}")>>
    ELSE <<Lit(v)>>

DumpsElems(s) ==
    IF s = <<>> THEN <<>>
    ELSE IF Len(s) = 1 THEN Dumps(s[1])
    ELSE Dumps(s[1]) \o <<P(",")>> \o DumpsElems(Tail(s))

DumpsMembers(f, keys) ==
    IF keys = {} THEN <<>>
    ELSE LET k == CHOOSE x \in keys : TRUE
             m == <<Lit(Str(k)), P(":")>> \o Dumps(f[k])
         IN  IF keys = {k} THEN m
             ELSE m \o <<P(",")>> \o DumpsMembers(f, keys \ {k})

\* json.load / resp.json(): a recursive-descent parse.  Each parser returns
\* [ok, v, rest]: whether it parsed, the value, the tokens left.
ParseFail == [ok |-> FALSE, v |-> Null, rest |-> <<>>]
Parsed(v, rest) == [ok |-> TRUE, v |-> v, rest |-> rest]

RECURSIVE ParseValue(_), ParseElems(_, _), ParseMembers(_, _)
ParseValue(t) ==
    IF t = <<>> THEN ParseFail
    ELSE IF IsLit(t[1]) THEN Parsed(t[1].lit, Tail(t))
    ELSE IF t[1] = P("[")
         THEN IF Len(t) >= 2 /\ t[2] = P("]")
              THEN Parsed(List(<<>>), SubSeq(t, 3, Len(t)))
              ELSE ParseElems(Tail(t), <<>>)
    ELSE IF t[1] = P("{")
         THEN IF Len(t) >= 2 /\ t[2] = P("}")
              THEN Parsed(EmptyObj, SubSeq(t, 3, Len(t)))
              ELSE ParseMembers(Tail(t), <<>>)
    ELSE ParseFail

ParseElems(t, acc) ==
    LET r == ParseValue(t)
    IN  IF ~r.ok \/ r.rest = <<>> THEN ParseFail
        ELSE IF r.rest[1] = P(",") THEN ParseElems(Tail(r.rest), Append(acc, r.v))
        ELSE IF r.rest[1] = P("]") THEN Parsed(List(Append(acc, r.v)), Tail(r.rest))
        ELSE ParseFail

\* A repeated key keeps its last value.
ParseMembers(t, acc) ==
    IF Len(t) < 3 \/ ~IsLit(t[1]) \/ t[2] # P(":") THEN ParseFail
    ELSE IF ~IsStr(t[1].lit) THEN ParseFail
    ELSE LET r == ParseValue(SubSeq(t, 3, Len(t)))
             f == (t[1].lit.str :> r.v) @@ acc
         IN  IF ~r.ok \/ r.rest = <<>> THEN ParseFail
             ELSE IF r.rest[1] = P(",") THEN ParseMembers(Tail(r.rest), f)
             ELSE IF r.rest[1] = P("}") THEN Parsed(Obj(f), Tail(r.rest))
             ELSE ParseFail

\* The document, or NoDoc for a JSONDecodeError
Loads(t) ==
    LET r == ParseValue(t)
    IN  IF r.ok /\ r.rest = <<>> THEN r.v ELSE NoDoc

----------------------------------------------------------------------------
(* File names.  A string is the sequence of its code points.               *)

\* ".geojson" (line 82)
GeojsonExt == <<46, 103, 101, 111, 106, 115, 111, 110>>

\* "/" (os.sep)
Sep == <<47>>

\* The value of NC4_ROOT when it is set: "/v"
RootPath == <<47, 118>>

\* str.lower() on ASCII
Lower(s) == [k \in 1..Len(s) |-> IF s[k] \in 65..90 THEN s[k] + 32 ELSE s[k]]

\* str.endswith(suffix)
EndsWith(s, suffix) ==
    /\ Len(s) >= Len(suffix)
    /\ SubSeq(s, Len(s) - Len(suffix) + 1, Len(s)) = suffix

\* line 82
IsGeojsonName(name) == EndsWith(Lower(name), GeojsonExt)

\* os.path.join(a, b), b relative
Join(a, b) == a \o Sep \o b

\* os.path.relpath(full, root), full below root
Relpath(full, root) == SubSeq(full, Len(root) + 2, Len(full))

\* The index of the last "/" of a path, 0 if it has none
LastSep(p) ==
    LET at == {k \in 1..Len(p) : <<p[k]>> = Sep}
    IN  IF at = {} THEN 0 ELSE CHOOSE k \in at : \A j \in at : j <= k

\* What os.walk(root) yields for the file at relative path p: (dirpath, name)
WalkEntry(root, p) ==
    [dirpath |-> IF LastSep(p) = 0 THEN root
                 ELSE Join(root, SubSeq(p, 1, LastSep(p) - 1)),
     name |-> SubSeq(p, LastSep(p) + 1, Len(p))]

\* Comparison of str: by code point, a proper prefix first
RECURSIVE StrLeq(_, _)
StrLeq(a, b) ==
    IF a = <<>> THEN TRUE
    ELSE IF b = <<>> THEN FALSE
    ELSE IF a[1] # b[1] THEN a[1] < b[1]
    ELSE StrLeq(Tail(a), Tail(b))

RECURSIVE Insert(_, _)
Insert(x, s) ==
    IF s = <<>> THEN <<x>>
    ELSE IF StrLeq(x, s[1]) THEN <<x>> \o s
    ELSE <<s[1]>> \o Insert(x, Tail(s))

\* As Sorted, returning the matches as they were found
Unsorted(s) == s

\* sorted(matches), line 86
RECURSIVE Sorted(_)
Sorted(s) == IF s = <<>> THEN <<>> ELSE Insert(s[1], Sorted(Tail(s)))

\* lines 79-85: the matches, in the order os.walk yields the files
RECURSIVE Matches(_, _)
Matches(root, entries) ==
    IF entries = <<>> THEN <<>>
    ELSE LET e == entries[1]
             rest == Matches(root, Tail(entries))
         IN  IF IsGeojsonName(e.name)
             THEN <<Relpath(Join(e.dirpath, e.name), root)>> \o rest
             ELSE rest

\* list_nc4_geojson(root), lines 77-86, on the files os.walk yields
ListNc4Geojson(root, entries) == Sorted(Matches(root, entries))

\* os.walk fixes neither the order of a directory's entries nor that of its
\* subdirectories: every order of the files of the volume.
RECURSIVE Orders(_)
Orders(S) ==
    IF S = {} THEN {<<>>}
    ELSE UNION {{<<x>> \o s : s \in Orders(S \ {x})} : x \in S}

WalkOrders(root, volume) ==
    {[k \in 1..Len(o) |-> WalkEntry(root, o[k])] : o \in Orders(DOMAIN volume)}

\* A returned list of paths, and no list
Listing(s) == [files |-> s]
NoListing == [nolisting |-> TRUE]

\* The call through st.cache_data (line 76): the cached value if there is
\* one, else the function's, which is cached.
ListCall(result) ==
    /\ listing' = (IF list_cache # NoListing THEN list_cache ELSE Listing(result))
    /\ list_cache' = listing'

----------------------------------------------------------------------------
(* list_nc4_geojson called on every bounded volume *)

MaxFiles == 3

MaxWrites == 1

Dirs == {<<>>, <<100>>, <<100>> \o GeojsonExt}                \* "", "d", "d.geojson"

Stems == {<<97>>}                                              \* "a"

Exts ==
    {GeojsonExt,
     <<46, 71, 101, 111, 74, 83, 79, 78>>,                     \* ".GeoJSON"
     <<46, 106, 115, 111, 110>>,                               \* ".json"
     <<103, 101, 111, 106, 115, 111, 110>>,                    \* "geojson"
     GeojsonExt \o <<46, 98, 97, 107>>}                        \* ".geojson.bak"

ListPaths ==
    {IF d = <<>> THEN s \o e ELSE d \o Sep \o s \o e : d \in Dirs, s \in Stems, e \in Exts}

SomeBytes == <<P("{"), P("}")>>

\* The subsets of S of at most n elements
RECURSIVE SubsetsUpTo(_, _)
SubsetsUpTo(S, n) ==
    IF n = 0 THEN {{}}
    ELSE LET prev == SubsetsUpTo(S, n - 1)
         IN  prev \cup {T \cup {x} : T \in prev, x \in S}

InitList ==
    /\ \E S \in SubsetsUpTo(ListPaths, MaxFiles) : fs = [p \in S |-> SomeBytes]
    /\ writes = 0
    /\ listing = NoListing
    /\ list_cache = NoListing
    /\ pc = "list"
    /\ tab = "none"
    /\ geojson_dict = NoDoc
    /\ default_center = <<Rat(0, 1), Rat(0, 1)>>
    /\ zoom = 0
    /\ fi = 0
    /\ stack = <<>>
    /\ lons = <<>>
    /\ lats = <<>>
    /\ view = NoView
    /\ exc = NoExc
    /\ shown = {}
    /\ resp = [noresp |-> TRUE]
    /\ rel_path = <<>>
    /\ NC4_ROOT = TRUE
    /\ runs = 0
    /\ url_cache = <<>>
    /\ file_cache = <<>>

\* A call of list_nc4_geojson(NC4_ROOT)
ListNc4 ==
    /\ pc = "list"
    /\ \E entries \in WalkOrders(RootPath, fs) :
        ListCall(ListNc4Geojson(RootPath, entries))
    /\ UNCHANGED <<viewVars, exc, pc, pageVars, url_cache, file_cache, fs, writes>>

\* The environment adds a file to the volume, or removes one
VolumeAdd ==
    /\ pc = "list"
    /\ writes < MaxWrites
    /\ Cardinality(DOMAIN fs) < MaxFiles
    /\ \E p \in ListPaths \ DOMAIN fs : fs' = (p :> SomeBytes) @@ fs
    /\ writes' = writes + 1
    /\ UNCHANGED <<viewVars, exc, pc, pageVars, cacheVars, listing>>

VolumeRemove ==
    /\ pc = "list"
    /\ writes < MaxWrites
    /\ \E p \in DOMAIN fs : fs' = [q \in DOMAIN fs \ {p} |-> fs[q]]
    /\ writes' = writes + 1
    /\ UNCHANGED <<viewVars, exc, pc, pageVars, cacheVars, listing>>

NextList ==
    \/ ListNc4
    \/ VolumeAdd
    \/ VolumeRemove

SpecList == InitList /\ [][NextList]_vars

----------------------------------------------------------------------------
(* The page: inputs *)

MaxRuns == 2

Line2 == FeatureCollection(<<Feature(List(<<Point(-100, 40), Point(-102, 42)>>))>>)
EmptyCoords == FeatureCollection(<<Feature(List(<<>>))>>)
NullFirst == FeatureCollection(<<Feature(List(<<Null, Num(40)>>))>>)

\* The documents the remote service and the writers of the volume hold
PageDocs == {Line2, EmptyCoords, NullFirst}

\* A body cut short: no JSON text
Truncated == SubSeq(Dumps(Line2), 1, 4)

Bodies == {Dumps(d) : d \in PageDocs} \cup {Truncated}

\* Two of the labels of SPC_OPTIONS (lines 52-59)
Urls == {"day1otlk_cat", "day1otlk_torn"}

NoResp == [noresp |-> TRUE]

\* What requests.get (line 64) comes back with: a response, or a transport
\* failure (no connection, a timeout after 15 s).
Responses ==
    {[status |-> st, body |-> b] : st \in {200, 304, 404, 503}, b \in Bodies}
    \cup {[failure |-> "ConnectionError"]}

IsResponse(r) == "status" \in DOMAIN r

\* What the run keeps of it in `resp`: not the body
Received(r) == IF IsResponse(r) THEN [status |-> r.status] ELSE r

\* The files of the volume the page is pointed at: "a.geojson", "a.json"
PagePaths == {<<97>> \o GeojsonExt, <<97, 46, 106, 115, 111, 110>>}

----------------------------------------------------------------------------
(* The loaders *)

HTTPError(status) == [type |-> "HTTPError", status |-> status]

\* As RaisesForStatus, for the server's errors only
RaisesForServerError(status) == 500 <= status /\ status < 600

\* Response.raise_for_status (line 65): an HTTPError for 4xx and 5xx
RaisesForStatus(status) == 400 <= status /\ status < 600

\* An outcome of a loader: the document returned, or the exception raised
Returned(doc) == [doc |-> doc, exc |-> NoExc]
Raised(e) == [doc |-> NoDoc, exc |-> e]

\* The body of load_geojson_from_url, lines 64-66
LoadGeojsonFromUrl(r) ==
    IF ~IsResponse(r) THEN Raised(Exc(r.failure))
    ELSE IF RaisesForStatus(r.status) THEN Raised(HTTPError(r.status))
    ELSE IF Loads(r.body) = NoDoc THEN Raised(Exc("JSONDecodeError"))
    ELSE Returned(Loads(r.body))

\* The classes `except requests.exceptions.RequestException` (line 130)
\* catches; resp.json() raises requests' own JSONDecodeError (requests 2.27).
IsRequestException(e) == e.type \in {"ConnectionError", "HTTPError", "JSONDecodeError"}

\* The body of load_geojson_from_file, lines 91-92
LoadGeojsonFromFile(volume, path) ==
    IF path \notin DOMAIN volume THEN Raised(Exc("FileNotFoundError"))
    ELSE IF Loads(volume[path]) = NoDoc THEN Raised(Exc("JSONDecodeError"))
    ELSE Returned(Loads(volume[path]))

\* st.cache_data (lines 62, 89): a cached value is returned without a call;
\* a returned value is cached, an exception is not.
Cached(cache, key, outcome) ==
    IF cache[key] # NoDoc THEN Returned(cache[key]) ELSE outcome

CacheAfter(cache, key, outcome) ==
    IF cache[key] = NoDoc /\ outcome.exc = NoExc
    THEN [cache EXCEPT ![key] = outcome.doc]
    ELSE cache

----------------------------------------------------------------------------
(* The page script, lines 98-247 *)

\* A displayed element
El(t, el, e) == [tab |-> t, el |-> el, exc |-> e]

\* The call compute_view_state(doc) of lines 140 and 233: the defaults of
\* line 14, zoom 4
CallComputeViewState(doc) ==
    /\ geojson_dict' = doc
    /\ default_center' = <<Rat(79, 2), Rat(-1967, 20)>>
    /\ zoom' = 4
    /\ fi' = 0
    /\ stack' = <<>>
    /\ lons' = <<>>
    /\ lats' = <<>>
    /\ view' = NoView
    /\ pc' = "walk"

\* lines 122-140: the selected URL is loaded; a RequestException is shown,
\* else the preview is shown and the view computed.
SpcLoad ==
    /\ pc = "spc_load"
    /\ \E url \in Urls, r \in Responses :
        LET hit == url_cache[url] # NoDoc
            o == Cached(url_cache, url, LoadGeojsonFromUrl(r))
        IN  /\ resp' = IF hit THEN NoResp ELSE Received(r)
            /\ url_cache' = CacheAfter(url_cache, url, o)
            /\ IF o.exc = NoExc
               THEN /\ shown' = shown \cup {El("spc", "preview", NoExc)}
                    /\ CallComputeViewState(o.doc)
                    /\ UNCHANGED <<exc, tab>>
               ELSE IF IsRequestException(o.exc)
               THEN /\ shown' = shown \cup {El("spc", "error_fetch", o.exc)}
                    /\ pc' = "nc4_root"
                    /\ tab' = "nc4"
                    /\ UNCHANGED <<viewVars, exc>>
               ELSE /\ exc' = o.exc
                    /\ pc' = "raised"
                    /\ UNCHANGED <<viewVars, shown, tab>>
    /\ UNCHANGED <<rel_path, NC4_ROOT, runs, list_cache, file_cache, envVars>>

\* The locals of a call of compute_view_state that has returned are gone.
ForgetCall ==
    /\ geojson_dict' = NoDoc
    /\ fi' = 0
    /\ stack' = <<>>
    /\ lons' = <<>>
    /\ lats' = <<>>
    /\ view' = NoView
    /\ UNCHANGED <<default_center, zoom>>

\* lines 141-154: the map of the SPC tab, drawn at the view
SpcChart ==
    /\ pc = "returned"
    /\ tab = "spc"
    /\ shown' = shown \cup {El("spc", "map", NoExc)}
    /\ pc' = "nc4_root"
    /\ tab' = "nc4"
    /\ ForgetCall
    /\ UNCHANGED <<exc, resp, rel_path, NC4_ROOT, runs, cacheVars, envVars>>

\* An exception nothing catches ends the script run.
Uncaught ==
    /\ pc = "raised"
    /\ tab # "none"
    /\ pc' = "crashed"
    /\ UNCHANGED <<viewVars, exc, pageVars, cacheVars, envVars>>

\* lines 174-208: the listing and the choice of a relative path
Nc4List ==
    /\ pc = "nc4_root"
    /\ IF ~NC4_ROOT
       THEN /\ shown' = shown \cup {El("nc4", "error_root", NoExc)}
            /\ pc' = "end"
            /\ UNCHANGED <<rel_path, list_cache, listing>>
       ELSE /\ \E entries \in WalkOrders(RootPath, fs) :
                ListCall(ListNc4Geojson(RootPath, entries))
            /\ IF listing'.files # <<>>
               THEN /\ shown' = shown \cup {El("nc4", "files", NoExc)}
                    /\ \E k \in 1..Len(listing'.files) : rel_path' = listing'.files[k]
               ELSE /\ shown' = shown \cup {El("nc4", "warning", NoExc)}
                    /\ rel_path' \in PagePaths
            /\ pc' = "nc4_exists"
    /\ UNCHANGED <<viewVars, exc, tab, resp, NC4_ROOT, runs, url_cache, file_cache,
                   fs, writes>>

\* lines 210-222: os.path.exists on the full path
Nc4Exists ==
    /\ pc = "nc4_exists"
    /\ IF rel_path \in DOMAIN fs
       THEN /\ pc' = "nc4_load"
            /\ shown' = shown
       ELSE /\ shown' = shown \cup {El("nc4", "error_missing", NoExc)}
            /\ pc' = "end"
    /\ UNCHANGED <<viewVars, exc, tab, resp, rel_path, NC4_ROOT, runs, cacheVars, envVars>>

\* lines 224-233: the file is loaded; any exception is shown, else the
\* preview is shown and the view computed.
Nc4Load ==
    /\ pc = "nc4_load"
    /\ LET o == Cached(file_cache, rel_path, LoadGeojsonFromFile(fs, rel_path))
       IN  /\ file_cache' = CacheAfter(file_cache, rel_path, o)
           /\ IF o.exc = NoExc
              THEN /\ shown' = shown \cup {El("nc4", "preview", NoExc)}
                   /\ CallComputeViewState(o.doc)
              ELSE /\ shown' = shown \cup {El("nc4", "error_load", o.exc)}
                   /\ pc' = "end"
                   /\ UNCHANGED viewVars
    /\ UNCHANGED <<exc, tab, resp, rel_path, NC4_ROOT, runs, url_cache, list_cache, envVars>>

\* lines 234-247: the map of the NC4 tab, drawn at the view
Nc4Chart ==
    /\ pc = "returned"
    /\ tab = "nc4"
    /\ shown' = shown \cup {El("nc4", "map", NoExc)}
    /\ pc' = "end"
    /\ ForgetCall
    /\ UNCHANGED <<exc, tab, resp, rel_path, NC4_ROOT, runs, cacheVars, envVars>>

\* Streamlit runs the script again (a widget changed, the page was reloaded);
\* the caches outlive the run.
Rerun ==
    /\ pc \in {"end", "crashed"}
    /\ runs < MaxRuns
    /\ runs' = runs + 1
    /\ pc' = "spc_load"
    /\ tab' = "spc"
    /\ shown' = {}
    /\ resp' = NoResp
    /\ exc' = NoExc
    /\ ForgetCall
    /\ UNCHANGED <<rel_path, NC4_ROOT, cacheVars, envVars>>

\* The environment writes a file of the volume, or removes one, between two
\* runs or between the existence check and the load.
FsWrite ==
    /\ pc \in {"end", "crashed", "nc4_load"}
    /\ writes < MaxWrites
    /\ \E p \in PagePaths, b \in Bodies :
        /\ ~(p \in DOMAIN fs /\ fs[p] = b)
        /\ fs' = (p :> b) @@ fs
    /\ writes' = writes + 1
    /\ UNCHANGED <<viewVars, exc, pc, pageVars, cacheVars, listing>>

FsRemove ==
    /\ pc \in {"end", "crashed", "nc4_load"}
    /\ writes < MaxWrites
    /\ \E p \in DOMAIN fs : fs' = [q \in DOMAIN fs \ {p} |-> fs[q]]
    /\ writes' = writes + 1
    /\ UNCHANGED <<viewVars, exc, pc, pageVars, cacheVars, listing>>

InitPage ==
    /\ pc = "spc_load"
    /\ tab = "spc"
    /\ runs = 1
    /\ shown = {}
    /\ resp = NoResp
    /\ rel_path = <<>>
    /\ NC4_ROOT \in BOOLEAN
    /\ url_cache = [u \in Urls |-> NoDoc]
    /\ file_cache = [p \in PagePaths |-> NoDoc]
    /\ list_cache = NoListing
    /\ listing = NoListing
    /\ writes = 0
    /\ \E S \in SUBSET PagePaths : fs \in [S -> Bodies]
    /\ geojson_dict = NoDoc
    /\ default_center = <<Rat(79, 2), Rat(-1967, 20)>>
    /\ zoom = 4
    /\ fi = 0
    /\ stack = <<>>
    /\ lons = <<>>
    /\ lats = <<>>
    /\ view = NoView
    /\ exc = NoExc

NextPage ==
    \/ SpcLoad
    \/ ForFeature
    \/ WalkLeaf
    \/ WalkDescend
    \/ WalkReturn
    \/ WalkRaise
    \/ Return
    \/ SpcChart
    \/ Uncaught
    \/ Nc4List
    \/ Nc4Exists
    \/ Nc4Load
    \/ Nc4Chart
    \/ Rerun
    \/ FsWrite
    \/ FsRemove

SpecPage == InitPage /\ [][NextPage]_vars

----------------------------------------------------------------------------
(* compute_view_state called on every bounded document *)

InitView ==
    /\ geojson_dict \in Documents(MaxSize)
    /\ \E cs \in CallSites :
        /\ default_center = cs.default_center
        /\ zoom = cs.zoom
    /\ fi = 0
    /\ stack = <<>>
    /\ lons = <<>>
    /\ lats = <<>>
    /\ view = NoView
    /\ exc = NoExc
    /\ pc = "walk"
    /\ tab = "none"
    /\ shown = {}
    /\ resp = NoResp
    /\ rel_path = <<>>
    /\ NC4_ROOT = TRUE
    /\ runs = 0
    /\ url_cache = <<>>
    /\ file_cache = <<>>
    /\ list_cache = NoListing
    /\ listing = NoListing
    /\ fs = <<>>
    /\ writes = 0

NextView ==
    \/ ForFeature
    \/ WalkLeaf
    \/ WalkDescend
    \/ WalkReturn
    \/ WalkRaise
    \/ Return

SpecView == InitView /\ [][NextView]_vars

\* A call runs to its end: nothing suspends the interpreter.
FairSpecView == SpecView /\ WF_vars(NextView)

----------------------------------------------------------------------------
(* What the claims speak of, stated on the document rather than on the walk *)

HasReturned == pc = "returned"
Terminal == pc \in {"returned", "raised"}

DocFeatures(doc) ==
    IF "features" \in DOMAIN doc.obj THEN doc.obj["features"].list ELSE <<>>

\* A feature whose geometry is missing or null
NoGeometry(f) == "geometry" \notin DOMAIN f.obj \/ f.obj["geometry"] = Null

\* A feature with a geometry that has coordinates, and those
HasCoords(f) ==
    /\ ~NoGeometry(f)
    /\ "coordinates" \in DOMAIN f.obj["geometry"].obj
CoordsOf(f) == f.obj["geometry"].obj["coordinates"]

RECURSIVE Flatten(_)
Flatten(ss) == IF ss = <<>> THEN <<>> ELSE ss[1] \o Flatten(Tail(ss))

\* The coordinate leaves of a tree, at any depth: the arrays that start with
\* a number
RECURSIVE LeavesOf(_)
LeavesOf(v) ==
    IF ~IsList(v) \/ v.list = <<>> THEN <<>>
    ELSE IF IsNumber(v.list[1]) THEN <<v>>
    ELSE Flatten([k \in 1..Len(v.list) |-> LeavesOf(v.list[k])])

DocLeaves(doc) ==
    LET feats == DocFeatures(doc)
    IN  Flatten([k \in 1..Len(feats) |->
                   IF HasCoords(feats[k]) THEN LeavesOf(CoordsOf(feats[k])) ELSE <<>>])

\* Coordinates as GeoJSON has them: a position (two numbers or more), or an
\* array, possibly empty, of coordinates
RECURSIVE IsCoordinates(_)
IsCoordinates(v) ==
    /\ IsList(v)
    /\ \/ v.list = <<>>
       \/ Len(v.list) >= 2 /\ \A k \in 1..Len(v.list) : IsNum(v.list[k])
       \/ \A k \in 1..Len(v.list) : IsList(v.list[k]) /\ IsCoordinates(v.list[k])

\* The same, without an empty array anywhere
RECURSIVE IsFullCoordinates(_)
IsFullCoordinates(v) ==
    /\ IsList(v)
    /\ v.list # <<>>
    /\ \/ Len(v.list) >= 2 /\ \A k \in 1..Len(v.list) : IsNum(v.list[k])
       \/ \A k \in 1..Len(v.list) : IsList(v.list[k]) /\ IsFullCoordinates(v.list[k])

IsGeoJSON(doc) ==
    \A k \in 1..Len(DocFeatures(doc)) :
        HasCoords(DocFeatures(doc)[k]) => IsCoordinates(CoordsOf(DocFeatures(doc)[k]))

RECURSIVE SumAt(_, _)
SumAt(leaves, j) ==
    IF leaves = <<>> THEN 0 ELSE NumVal(leaves[1].list[j]) + SumAt(Tail(leaves), j)

\* The view the specification gives a document of well-formed leaves
MeanView(doc, center, z) ==
    LET leaves == DocLeaves(doc)
        n == Len(leaves)
    IN  IF n = 0 THEN [latitude |-> center[1], longitude |-> center[2], zoom |-> z]
        ELSE [latitude |-> Rat(SumAt(leaves, 2), n),
              longitude |-> Rat(SumAt(leaves, 1), n),
              zoom |-> z]

----------------------------------------------------------------------------
(* compute_view_state: C1, C2, C8, C9 (under SpecView and FairSpecView) *)

\* C1: for every GeoJSON document with N >= 1 coordinate leaves, the call
\* returns a view whose latitude is the mean of the leaves' second elements,
\* whose longitude is the mean of their first elements, and whose zoom is
\* the caller's.
C1_ViewIsMeanOfLeaves ==
    (Terminal /\ IsGeoJSON(geojson_dict) /\ Len(DocLeaves(geojson_dict)) >= 1)
        => /\ pc = "returned"
           /\ view = MeanView(geojson_dict, default_center, zoom)

\* The part of C1 the code keeps: the same, when no array is empty.
ViewIsMeanOfLeavesOfFullCoordinates ==
    (Terminal /\ Len(DocLeaves(geojson_dict)) >= 1
        /\ \A k \in 1..Len(DocFeatures(geojson_dict)) :
              HasCoords(DocFeatures(geojson_dict)[k])
                  => IsFullCoordinates(CoordsOf(DocFeatures(geojson_dict)[k])))
        => /\ pc = "returned"
           /\ view = MeanView(geojson_dict, default_center, zoom)

AllNoGeometry(doc) ==
    \A k \in 1..Len(DocFeatures(doc)) : NoGeometry(DocFeatures(doc)[k])

\* C2: a document whose feature list is empty, or whose features all have a
\* missing or null geometry, never raises, has each feature skipped (no call
\* of walk_coords, no sample) and returns exactly the caller's default
\* center and zoom.
C2_NoGeometryGivesDefault ==
    AllNoGeometry(geojson_dict)
        => /\ pc # "raised"
           /\ stack = <<>>
           /\ lats = <<>>
           /\ lons = <<>>
           /\ HasReturned => view = [latitude |-> default_center[1],
                                   longitude |-> default_center[2],
                                   zoom |-> zoom]

C2_Witness ==
    /\ HasReturned
    /\ AllNoGeometry(geojson_dict)
    /\ Len(DocFeatures(geojson_dict)) >= 2
    /\ \E k \in 1..Len(DocFeatures(geojson_dict)) :
          DocFeatures(geojson_dict)[k] = Obj([geometry |-> Null])
    /\ view = [latitude |-> Rat(79, 2), longitude |-> Rat(-1967, 20), zoom |-> 4]

HasEmptyCoordinates(doc) ==
    \E k \in 1..Len(DocFeatures(doc)) :
        HasCoords(DocFeatures(doc)[k]) /\ CoordsOf(DocFeatures(doc)[k]) = List(<<>>)

\* C8: a feature whose "coordinates" is present but empty contributes no
\* sample and causes no error: the call returns what it returns for the
\* document without that feature (the view of the other features' leaves).
C8_EmptyCoordinatesIgnored ==
    (Terminal /\ HasEmptyCoordinates(geojson_dict)
        /\ \A k \in 1..Len(DocFeatures(geojson_dict)) :
              HasCoords(DocFeatures(geojson_dict)[k])
                  => \/ CoordsOf(DocFeatures(geojson_dict)[k]) = List(<<>>)
                     \/ IsFullCoordinates(CoordsOf(DocFeatures(geojson_dict)[k])))
        => /\ pc = "returned"
           /\ view = MeanView(geojson_dict, default_center, zoom)

\* A visited node whose first element is neither an array nor a number
RECURSIVE HasBadFirst(_)
HasBadFirst(v) ==
    /\ IsList(v)
    /\ v.list # <<>>
    /\ ~IsNumber(v.list[1])
    /\ \/ ~IsList(v.list[1])
       \/ \E k \in 1..Len(v.list) : HasBadFirst(v.list[k])

DocHasBadFirst(doc) ==
    \E k \in 1..Len(DocFeatures(doc)) :
        HasCoords(DocFeatures(doc)[k]) /\ HasBadFirst(CoordsOf(DocFeatures(doc)[k]))

\* A tree on which walk_coords has nothing to fail on
RECURSIVE IsWalkable(_)
IsWalkable(v) ==
    /\ IsList(v)
    /\ v.list # <<>>
    /\ IF IsNumber(v.list[1]) THEN Len(v.list) >= 2 /\ IsNumber(v.list[2])
       ELSE \A k \in 1..Len(v.list) : IsWalkable(v.list[k])

DocIsWalkable(doc) ==
    \A k \in 1..Len(DocFeatures(doc)) :
        HasCoords(DocFeatures(doc)[k]) => IsWalkable(CoordsOf(DocFeatures(doc)[k]))

\* The samples are the leaves' first and second elements, in document order
SamplesAreLeaves ==
    LET leaves == DocLeaves(geojson_dict)
    IN  /\ Len(lons) = Len(leaves)
        /\ Len(lats) = Len(leaves)
        /\ \A k \in 1..Len(leaves) :
              lons[k] = leaves[k].list[1] /\ lats[k] = leaves[k].list[2]

----------------------------------------------------------------------------
(* list_nc4_geojson: C3 (under SpecList) *)

\* a before b in the order of str: they differ first at k, where a ends or
\* has the smaller code point
Precedes(a, b) ==
    \E k \in 1..(Len(b)) :
        /\ \A j \in 1..(k - 1) : j <= Len(a) /\ a[j] = b[j]
        /\ k > Len(a) \/ a[k] < b[k]

\* The name of the file at path p: what follows the last "/"
NameOf(p) == SubSeq(p, LastSep(p) + 1, Len(p))

\* ".geojson" in any mix of cases, at the end of p
EndsInGeojson(p) ==
    /\ Len(p) >= Len(GeojsonExt)
    /\ \A k \in 1..Len(GeojsonExt) :
          LET c == p[Len(p) - Len(GeojsonExt) + k]
          IN  c = GeojsonExt[k] \/ (GeojsonExt[k] \in 97..122 /\ c = GeojsonExt[k] - 32)

\* C3: every path list_nc4_geojson returns ends in ".geojson", compared
\* without case, and the paths returned ascend in the order of str.
C3_ListingIsGeojsonAndSorted ==
    listing # NoListing =>
        /\ \A k \in 1..Len(listing.files) : EndsInGeojson(NameOf(listing.files[k]))
        /\ \A i, j \in 1..Len(listing.files) :
              i < j => Precedes(listing.files[i], listing.files[j])

\* A listing of two files, one ".GeoJSON", one in a directory, beside a file
\* that is not listed
C3_Witness ==
    /\ listing # NoListing
    /\ Len(listing.files) = 2
    /\ \E k \in 1..2 : ~EndsWith(listing.files[k], GeojsonExt)
    /\ \E k \in 1..2 : LastSep(listing.files[k]) > 0
    /\ \E p \in DOMAIN fs : ~EndsInGeojson(NameOf(p))

----------------------------------------------------------------------------
(* The page: C4, C5, C6, C7, C10 (under SpecPage) *)

\* The NC4 tab holds a document load_geojson_from_file has just returned
Nc4Loaded == tab = "nc4" /\ pc \in {"walk", "returned", "raised"}

\* C4: the document load_geojson_from_file returns for a path equals the
\* FeatureCollection most recently written to it, also when the path was
\* loaded before and has been rewritten since.
C4_LoadReturnsWrittenDocument ==
    Nc4Loaded =>
        \A d \in PageDocs :
            (rel_path \in DOMAIN fs /\ fs[rel_path] = Dumps(d)) => geojson_dict = d

\* C5: a path that does not exist and a path that holds invalid JSON end in
\* two different errors, and in neither case is a document returned or a
\* map rendered.
C5_NoDocumentFromMissingOrInvalidFile ==
    /\ Nc4Loaded => rel_path \in DOMAIN fs /\ Loads(fs[rel_path]) # NoDoc
    /\ \A e \in shown :
          (e.tab = "nc4" /\ e.el \in {"error_missing", "error_load"})
              => /\ El("nc4", "preview", NoExc) \notin shown
                 /\ El("nc4", "map", NoExc) \notin shown
                 /\ e.exc.type \in {"none", "FileNotFoundError", "JSONDecodeError"}

\* What the SPC tab shows of a failed fetch: the error with its cause, and
\* neither the preview nor the map
SpcShowsOnly(cause) ==
    /\ El("spc", "error_fetch", cause) \in shown
    /\ El("spc", "preview", NoExc) \notin shown
    /\ El("spc", "map", NoExc) \notin shown

FetchCause(r) == IF IsResponse(r) THEN HTTPError(r.status) ELSE Exc(r.failure)

\* C6, as claimed: when the GET of this run returned a status outside 2xx,
\* or the transport failed, the load failed, and the tab shows the error
\* with the status and no map.
C6_Non2xxIsShownAsError ==
    (resp # NoResp /\ (IsResponse(resp) => ~(200 <= resp.status /\ resp.status < 300)))
        => SpcShowsOnly(FetchCause(resp))

\* C6, amended: the same for a 4xx or 5xx status or a transport failure.
C6_ErrorStatusIsShownAsError ==
    (resp # NoResp /\ (IsResponse(resp) => (400 <= resp.status /\ resp.status < 600)))
        => SpcShowsOnly(FetchCause(resp))

C6_Witness ==
    /\ resp = [status |-> 503]
    /\ SpcShowsOnly(HTTPError(503))
    /\ tab = "nc4"

\* C7: no error leaves the page script uncaught, on either tab.
C7_NoUncaughtFailure == pc # "crashed"

\* C10: when a run ends, each tab shows both the preview and the map of its
\* document, or neither.
C10_NoPartialResults ==
    pc \in {"end", "crashed"} =>
        \A t \in {"spc", "nc4"} :
            El(t, "preview", NoExc) \in shown <=> El(t, "map", NoExc) \in shown

====
